---------------------------- MODULE Spec2Model ----------------------------
(***************************************************************************)
(* Restore-point catalog and deletion handlers of web-interface/app.py.    *)
(*                                                                         *)
(* Python strings are sequences of one-character strings, so that          *)
(* str.startswith, str.endswith, str.strip, str.split, str.replace,        *)
(* file.readlines and urllib.parse.unquote are computed character by       *)
(* character.  The filesystem is a function from absolute canonical paths  *)
(* (sequences of path components) to nodes.                                *)
(***************************************************************************)
EXTENDS Integers, Sequences, FiniteSets, TLC

(***************************************************************************)
(* Bounds of the model.                                                    *)
(***************************************************************************)
\* longest manifest (in lines, header included) drawn in Init
MaxLines == 4
\* longest list of names posted to the bulk-delete handler
MaxBulk == 2

(***************************************************************************)
(* Python string primitives.                                               *)
(***************************************************************************)
RECURSIVE Concat(_)
Concat(ss) == IF ss = <<>> THEN <<>> ELSE Head(ss) \o Concat(Tail(ss))

\* str.startswith(p)
StartsWith(s, p) == Len(s) >= Len(p) /\ SubSeq(s, 1, Len(p)) = p

\* str.endswith(p)
EndsWith(s, p) ==
    Len(s) >= Len(p) /\ SubSeq(s, Len(s) - Len(p) + 1, Len(s)) = p

\* characters str.strip() removes
IsSpace(c) == c \in {" ", "\n", "\t", "\r"}

RECURSIVE LStrip(_)
LStrip(s) ==
    IF s # <<>> /\ IsSpace(Head(s)) THEN LStrip(Tail(s)) ELSE s

RECURSIVE RStrip(_)
RStrip(s) ==
    IF s # <<>> /\ IsSpace(s[Len(s)])
    THEN RStrip(SubSeq(s, 1, Len(s) - 1))
    ELSE s

\* str.strip()
Strip(s) == RStrip(LStrip(s))

\* str.split(sep) for a one-character separator: never an empty list
RECURSIVE SplitAcc(_, _, _)
SplitAcc(s, sep, cur) ==
    IF s = <<>> THEN <<cur>>
    ELSE IF Head(s) = sep
         THEN <<cur>> \o SplitAcc(Tail(s), sep, <<>>)
         ELSE SplitAcc(Tail(s), sep, Append(cur, Head(s)))

Split(s, sep) == SplitAcc(s, sep, <<>>)

\* str.replace(old, new): every non-overlapping occurrence, left to right
RECURSIVE Replace(_, _, _)
Replace(s, old, new) ==
    IF s = <<>> THEN <<>>
    ELSE IF StartsWith(s, old)
         THEN new \o Replace(SubSeq(s, Len(old) + 1, Len(s)), old, new)
         ELSE <<Head(s)>> \o Replace(Tail(s), old, new)

\* file.readlines(): lines keep their terminator; a last line may lack one
RECURSIVE ReadLinesAcc(_, _)
ReadLinesAcc(s, cur) ==
    IF s = <<>> THEN (IF cur = <<>> THEN <<>> ELSE <<cur>>)
    ELSE IF Head(s) = "\n"
         THEN <<Append(cur, "\n")>> \o ReadLinesAcc(Tail(s), <<>>)
         ELSE ReadLinesAcc(Tail(s), Append(cur, Head(s)))

ReadLines(content) == ReadLinesAcc(content, <<>>)

\* the percent escapes over the characters of the model: %XX -> character
HexTable ==
    { <<"2", "F", "/">>, <<"2", "f", "/">>,
      <<"2", "E", ".">>, <<"2", "e", ".">>,
      <<"7", "6", "v">>, <<"2", "5", "%">> }

IsEscape(s) ==
    /\ Len(s) >= 3
    /\ s[1] = "%"
    /\ \E h \in HexTable : h[1] = s[2] /\ h[2] = s[3]

Unescape(s) == (CHOOSE h \in HexTable : h[1] = s[2] /\ h[2] = s[3])[3]

\* urllib.parse.unquote: one level of percent-decoding
RECURSIVE unquote(_)
unquote(s) ==
    IF s = <<>> THEN <<>>
    ELSE IF IsEscape(s)
         THEN <<Unescape(s)>> \o unquote(SubSeq(s, 4, Len(s)))
         ELSE <<Head(s)>> \o unquote(Tail(s))

\* code points of the characters that occur in directory entry names
Ord(c) ==
    CASE c = "-" -> 45 [] c = "." -> 46
      [] c = "1" -> 49 [] c = "2" -> 50
      [] c = "_" -> 95
      [] c = "a" -> 97 [] c = "c" -> 99 [] c = "e" -> 101 [] c = "f" -> 102
      [] c = "i" -> 105 [] c = "m" -> 109 [] c = "o" -> 111
      [] c = "p" -> 112 [] c = "r" -> 114 [] c = "s" -> 115
      [] c = "t" -> 116 [] c = "v" -> 118 [] c = "x" -> 120
      [] OTHER -> 0

\* Python's str < str: lexicographic on code points
RECURSIVE StrLess(_, _)
StrLess(a, b) ==
    IF b = <<>> THEN FALSE
    ELSE IF a = <<>> THEN TRUE
    ELSE IF Head(a) # Head(b) THEN Ord(Head(a)) < Ord(Head(b))
    ELSE StrLess(Tail(a), Tail(b))

\* sorted(names, reverse=True) of a set of distinct names
RECURSIVE SortedReverse(_)
SortedReverse(names) ==
    IF names = {} THEN <<>>
    ELSE LET m == CHOOSE x \in names : \A y \in names \ {x} : StrLess(y, x)
         IN  <<m>> \o SortedReverse(names \ {m})

(***************************************************************************)
(* Program constants: names and paths (app.py lines 13-14 and the strings  *)
(* of the handlers).                                                       *)
(***************************************************************************)
\* 'vm-export-'
PREFIX == <<"v", "m", "-", "e", "x", "p", "o", "r", "t", "-">>
\* '.ova'
OVA_EXT == <<".", "o", "v", "a">>
\* 'vm_export_tasks.csv'
TASKS_FILE_NAME == <<"v", "m", "_", "e", "x", "p", "o", "r", "t", "_", "t", "a", "s", "k", "s", ".", "c", "s", "v">>
\* the directory that holds web-interface/ (an absolute path)
SCRIPT_DIR == <<"/", "t", "o", "o", "l">>

\* os.path.join(a, b)
join(a, b) ==
    IF StartsWith(b, <<"/">>) THEN b
    ELSE IF a = <<>> \/ EndsWith(a, <<"/">>) THEN a \o b
    ELSE a \o <<"/">> \o b

RESTORE_POINTS_DIR == join(SCRIPT_DIR, <<"r", "e", "s", "t", "o", "r", "e", "-", "p", "o", "i", "n", "t", "s">>)

(***************************************************************************)
(* The filesystem.  A key is the canonical absolute path of a node, as the *)
(* sequence of its components; <<>> is "/".  A node records what the       *)
(* handlers can observe of it:                                             *)
(*   kind       "dir" or "file"                                            *)
(*   size       st_size                                                    *)
(*   content    the text of a file                                         *)
(*   readable   open(path, 'r') succeeds                                   *)
(*   statOK     os.stat succeeds (FALSE: a dangling link, listed by its    *)
(*              directory but failing os.path.exists and os.path.getsize)  *)
(*   removable  unlink / rmdir of the node succeeds                        *)
(***************************************************************************)
Parent(k) == IF k = <<>> THEN <<>> ELSE SubSeq(k, 1, Len(k) - 1)

IsUnder(k, top) == Len(k) >= Len(top) /\ SubSeq(k, 1, Len(top)) = top

Children(f, k) == { c \in DOMAIN f : Len(c) = Len(k) + 1 /\ Parent(c) = k }

\* the components of a path string
PathComponents(p) == Split(p, "/")

\* kernel path resolution from "/": every prefix must be a directory
RECURSIVE ResolveFrom(_, _, _)
ResolveFrom(f, cur, comps) ==
    IF comps = <<>> THEN [ok |-> cur \in DOMAIN f, key |-> cur]
    ELSE IF cur \notin DOMAIN f \/ f[cur].kind # "dir"
         THEN [ok |-> FALSE, key |-> <<>>]
    ELSE LET c == Head(comps) IN
         IF c = <<>> \/ c = <<".">> THEN ResolveFrom(f, cur, Tail(comps))
         ELSE IF c = <<".", ".">> THEN ResolveFrom(f, Parent(cur), Tail(comps))
         ELSE ResolveFrom(f, Append(cur, c), Tail(comps))

Resolve(f, p) == ResolveFrom(f, <<>>, PathComponents(p))

\* os.path.exists(p)
exists(f, p) ==
    LET r == Resolve(f, p) IN r.ok /\ f[r.key].statOK

\* os.path.isdir(p)
isdir(f, p) ==
    LET r == Resolve(f, p) IN r.ok /\ f[r.key].statOK /\ f[r.key].kind = "dir"

\* os.listdir(p) of a directory: the names of its entries
listdir(f, p) ==
    LET r == Resolve(f, p) IN { c[Len(c)] : c \in Children(f, r.key) }

\* with open(p, 'r') as f: f.readlines()   (ok = FALSE: the open raised)
readlines(f, p) ==
    LET r == Resolve(f, p) IN
    IF r.ok /\ f[r.key].kind = "file" /\ f[r.key].statOK /\ f[r.key].readable
    THEN [ok |-> TRUE, lines |-> ReadLines(f[r.key].content)]
    ELSE [ok |-> FALSE, lines |-> <<>>]

\* os.path.getsize of the node at key k   (ok = FALSE: the stat raised)
getsize(f, k) ==
    IF k \in DOMAIN f /\ f[k].statOK
    THEN [ok |-> TRUE, size |-> f[k].size]
    ELSE [ok |-> FALSE, size |-> 0]

\* every ordering of a finite set: a directory scan returns its entries in
\* an order the program does not control
RECURSIVE Perms(_)
Perms(S) ==
    IF S = {} THEN { <<>> }
    ELSE UNION { { <<x>> \o q : q \in Perms(S \ {x}) } : x \in S }

(***************************************************************************)
(* os.walk and shutil.rmtree.                                              *)
(***************************************************************************)
FilesIn(f, k) == { c \in Children(f, k) : f[c].kind = "file" }
DirsIn(f, k) == { c \in Children(f, k) : f[c].kind = "dir" }

\* the orders in which "for root, dirs, files in os.walk(top): for file in
\* files" can visit the files below directory k (top-down: the files of a
\* directory, then its subdirectories one after the other)
RECURSIVE WalkOrders(_, _), WalkEach(_, _)
WalkOrders(f, k) ==
    { fp \o rest : fp \in Perms(FilesIn(f, k)),
                   rest \in UNION { WalkEach(f, dp) : dp \in Perms(DirsIn(f, k)) } }
WalkEach(f, dseq) ==
    IF dseq = <<>> THEN { <<>> }
    ELSE { a \o b : a \in WalkOrders(f, Head(dseq)), b \in WalkEach(f, Tail(dseq)) }

\* os.walk(p): nothing is visited when p is not a directory (errors of the
\* scan are ignored by os.walk)
walk(f, p) ==
    IF isdir(f, p) THEN WalkOrders(f, Resolve(f, p).key) ELSE { <<>> }

\* lines 116-123: total_size += getsize(file) for the '.ova' files, inside
\* one try around the whole walk: the first getsize that raises ends the loop
RECURSIVE SumOvaUntilError(_, _)
SumOvaUntilError(f, order) ==
    IF order = <<>> THEN 0
    ELSE LET k == Head(order) IN
         IF ~EndsWith(k[Len(k)], OVA_EXT) THEN SumOvaUntilError(f, Tail(order))
         ELSE IF getsize(f, k).ok
              THEN getsize(f, k).size + SumOvaUntilError(f, Tail(order))
              ELSE 0

\* lines 299-306 and 373-380: the same loop without the extension test
RECURSIVE SumAllUntilError(_, _)
SumAllUntilError(f, order) ==
    IF order = <<>> THEN 0
    ELSE LET k == Head(order) IN
         IF getsize(f, k).ok
         THEN getsize(f, k).size + SumAllUntilError(f, Tail(order))
         ELSE 0

\* the values total_size can have after the loop of get_restore_points
listing_total_size(f, item_path) ==
    { SumOvaUntilError(f, o) : o \in walk(f, item_path) }

\* the values total_size can have after the loop of the two delete handlers
deletion_total_size(f, restore_point_path) ==
    { SumAllUntilError(f, o) : o \in walk(f, restore_point_path) }

\* lines 103-113, 287-297, 361-371: vm_count = len(f.readlines()[1:]),
\* 0 when the tasks file does not exist or reading it raises
count_vms(f, restore_point_path) ==
    LET tasks_file == join(restore_point_path, TASKS_FILE_NAME)
        r == readlines(f, tasks_file)
    IN  IF exists(f, tasks_file) /\ r.ok /\ Len(r.lines) >= 1
        THEN Len(r.lines) - 1
        ELSE 0

RemoveNode(f, k) == [c \in DOMAIN f \ {k} |-> f[c]]

\* _rmtree_safe_fd: the entries of directory k are removed in scan order,
\* depth first; the first unlink or rmdir that fails raises and leaves the
\* rest in place.  The result is the set of [fs, ok] the call can end in.
RECURSIVE RemoveEntries(_, _), RemoveContents(_, _)
RemoveEntries(f, entries) ==
    IF entries = <<>> THEN { [fs |-> f, ok |-> TRUE] }
    ELSE LET c == Head(entries) IN
         IF f[c].kind = "file"
         THEN IF f[c].removable
              THEN RemoveEntries(RemoveNode(f, c), Tail(entries))
              ELSE { [fs |-> f, ok |-> FALSE] }
         ELSE UNION { IF ~o.ok THEN { o }
                      ELSE IF f[c].removable
                           THEN RemoveEntries(RemoveNode(o.fs, c), Tail(entries))
                           ELSE { [fs |-> o.fs, ok |-> FALSE] }
                      : o \in RemoveContents(f, c) }
RemoveContents(f, k) ==
    UNION { RemoveEntries(f, es) : es \in Perms(Children(f, k)) }

\* the last component of a path string that is not empty
RECURSIVE LastComponent(_)
LastComponent(comps) ==
    IF comps = <<>> THEN <<>>
    ELSE IF comps[Len(comps)] # <<>> THEN comps[Len(comps)]
    ELSE LastComponent(SubSeq(comps, 1, Len(comps) - 1))

\* the final os.rmdir(path) of rmtree, on the filesystem f left by the
\* removal of the contents of k: the path is resolved again, and the kernel
\* refuses a path that ends in '.' or '..', the root, and a directory that
\* cannot be removed
rmdir_ok(f, p, k) ==
    /\ Resolve(f, p).ok
    /\ Resolve(f, p).key = k
    /\ LastComponent(PathComponents(p)) \notin { <<".">>, <<".", ".">> }
    /\ k # <<>>
    /\ f[k].removable

\* rmtree called with ignore_errors=True: a removal that fails is not raised
rmtree_ignore_errors(f, p) ==
    LET r == Resolve(f, p) IN
    IF ~r.ok \/ f[r.key].kind # "dir" THEN { [fs |-> f, ok |-> TRUE] }
    ELSE { IF o.ok /\ rmdir_ok(o.fs, p, r.key)
           THEN [fs |-> RemoveNode(o.fs, r.key), ok |-> TRUE]
           ELSE [fs |-> o.fs, ok |-> TRUE]
           : o \in RemoveContents(f, r.key) }

\* shutil.rmtree(p): the set of [fs, ok]; ok = FALSE when it raised
rmtree(f, p) ==
    LET r == Resolve(f, p) IN
    IF ~r.ok \/ f[r.key].kind # "dir" THEN { [fs |-> f, ok |-> FALSE] }
    ELSE { IF o.ok /\ rmdir_ok(o.fs, p, r.key)
           THEN [fs |-> RemoveNode(o.fs, r.key), ok |-> TRUE]
           ELSE [fs |-> o.fs, ok |-> FALSE]
           : o \in RemoveContents(f, r.key) }

(***************************************************************************)
(* get_restore_points and api_restore_points (lines 94-135, 179-185).      *)
(***************************************************************************)
KIB == 1024

\* round(total_size / 1024 / 1024, 1), in tenths of a megabyte: the
\* quotient is exact in a double, and round() rounds halves to even
size_mb(total_size) ==
    LET m == KIB * KIB
        q == (total_size * 10) \div m
        r == (total_size * 10) % m
    IN  IF 2 * r > m \/ (2 * r = m /\ q % 2 = 1) THEN q + 1 ELSE q

\* the loop body of lines 100-131 over the sorted directory entries
RECURSIVE ListItems(_, _)
ListItems(f, items) ==
    IF items = <<>> THEN { <<>> }
    ELSE LET item == Head(items)
             item_path == join(RESTORE_POINTS_DIR, item)
         IN  IF StartsWith(item, PREFIX) /\ isdir(f, item_path)
             THEN { << [ name |-> item,
                         timestamp |-> Replace(item, PREFIX, <<>>),
                         vm_count |-> count_vms(f, item_path),
                         size_bytes |-> total_size,
                         size_mb |-> size_mb(total_size) ] >> \o rest
                    : total_size \in listing_total_size(f, item_path),
                      rest \in ListItems(f, Tail(items)) }
             ELSE ListItems(f, Tail(items))

\* get_restore_points(): the results it can return.  os.listdir raises when
\* the catalog root exists and is not a directory.
get_restore_points(f) ==
    IF exists(f, RESTORE_POINTS_DIR)
    THEN IF ~isdir(f, RESTORE_POINTS_DIR)
         THEN { [ failed |-> TRUE, restore_points |-> <<>> ] }
         ELSE { [ failed |-> FALSE, restore_points |-> rps ]
                : rps \in ListItems(f, SortedReverse(listdir(f, RESTORE_POINTS_DIR))) }
    ELSE { [ failed |-> FALSE, restore_points |-> <<>> ] }

NoBody == [ empty |-> TRUE ]

\* api_restore_points(): the responses
api_restore_points(f) ==
    { IF g.failed
      THEN [ status |-> 500, error |-> "Failed to get restore points", body |-> NoBody ]
      ELSE [ status |-> 200, error |-> "", body |-> [ restore_points |-> g.restore_points ] ]
      : g \in get_restore_points(f) }

(***************************************************************************)
(* api_restore_point_contents (lines 199-262).                             *)
(***************************************************************************)
\* lines 240-249: ova_exists and ova_size_bytes of one row
ova_size_bytes(f, ova_file) ==
    IF exists(f, ova_file) THEN getsize(f, Resolve(f, ova_file).key).size ELSE 0

\* lines 226-251: the rows of lines[1:] with at least three fields
RECURSIVE parse_rows(_, _, _)
parse_rows(f, restore_point_path, lines) ==
    IF lines = <<>> THEN <<>>
    ELSE LET parts == Split(Strip(Head(lines)), ",")
             rest == parse_rows(f, restore_point_path, Tail(lines))
         IN  IF Len(parts) >= 3
             THEN LET ova_file == join(restore_point_path, parts[2] \o OVA_EXT)
                  IN  << [ vm_name |-> parts[1],
                           vm_uuid |-> parts[2],
                           project |-> parts[3],
                           task_uuid |-> IF Len(parts) > 3 THEN parts[4] ELSE <<>>,
                           ova_name |-> IF Len(parts) > 4 THEN parts[5] ELSE <<>>,
                           status |-> "Completed",
                           export_time |-> "",
                           ova_exists |-> exists(f, ova_file),
                           ova_size_bytes |-> ova_size_bytes(f, ova_file) ] >> \o rest
             ELSE rest

\* the rows parsed from f.readlines() without dropping the first line
read_vms_keep_header(f, restore_point_path) ==
    LET tasks_file == join(restore_point_path, TASKS_FILE_NAME)
        r == readlines(f, tasks_file)
    IN  IF ~exists(f, tasks_file) THEN [ ok |-> TRUE, vms |-> <<>> ]
        ELSE IF ~r.ok THEN [ ok |-> FALSE, vms |-> <<>> ]
        ELSE [ ok |-> TRUE, vms |-> parse_rows(f, restore_point_path, r.lines) ]

\* lines 221-253: the vms list, or the failure of open/readlines
read_vms(f, restore_point_path) ==
    LET tasks_file == join(restore_point_path, TASKS_FILE_NAME)
        r == readlines(f, tasks_file)
    IN  IF ~exists(f, tasks_file) THEN [ ok |-> TRUE, vms |-> <<>> ]
        ELSE IF ~r.ok THEN [ ok |-> FALSE, vms |-> <<>> ]
        ELSE IF Len(r.lines) > 1
             THEN [ ok |-> TRUE, vms |-> parse_rows(f, restore_point_path, Tail(r.lines)) ]
             ELSE [ ok |-> TRUE, vms |-> <<>> ]

\* the handler: the response to a request for the contents of `arg`
api_restore_point_contents(f, arg) ==
    LET restore_point_name == unquote(arg)
        restore_point_path == join(RESTORE_POINTS_DIR, restore_point_name)
        v == read_vms(f, restore_point_path)
    IN  IF ~StartsWith(restore_point_name, PREFIX)
        THEN [ status |-> 400, error |-> "Invalid restore point name format", body |-> NoBody ]
        ELSE IF ~exists(f, restore_point_path)
        THEN [ status |-> 404, error |-> "Restore point not found", body |-> NoBody ]
        ELSE IF ~v.ok
        THEN [ status |-> 500, error |-> "Failed to read restore point contents", body |-> NoBody ]
        ELSE [ status |-> 200, error |-> "",
               body |-> [ restore_point |-> restore_point_name,
                          vms |-> v.vms,
                          vm_count |-> Len(v.vms) ] ]

(***************************************************************************)
(* api_delete_restore_point (lines 264-320).                               *)
(***************************************************************************)
\* the handler: the [fs, status, error, body] a DELETE of `arg` can end in
api_delete_restore_point(f, arg) ==
    LET restore_point_name == unquote(arg)
        restore_point_path == join(RESTORE_POINTS_DIR, restore_point_name)
    IN  IF ~StartsWith(restore_point_name, PREFIX)
        THEN { [ fs |-> f, status |-> 400,
                 error |-> "Invalid restore point name format", body |-> NoBody ] }
        ELSE IF ~exists(f, restore_point_path)
        THEN { [ fs |-> f, status |-> 404,
                 error |-> "Restore point not found", body |-> NoBody ] }
        ELSE IF ~isdir(f, restore_point_path)
        THEN { [ fs |-> f, status |-> 400,
                 error |-> "Invalid restore point", body |-> NoBody ] }
        ELSE { IF o.ok
               THEN [ fs |-> o.fs, status |-> 200, error |-> "",
                      body |-> [ success |-> TRUE,
                                 restore_point |-> restore_point_name,
                                 deleted_vm_count |-> count_vms(f, restore_point_path),
                                 deleted_size_bytes |-> total_size ] ]
               ELSE [ fs |-> o.fs, status |-> 500,
                      error |-> "Failed to delete restore point", body |-> NoBody ]
               : total_size \in deletion_total_size(f, restore_point_path),
                 o \in rmtree(f, restore_point_path) }

(***************************************************************************)
(* api_bulk_delete_restore_points (lines 322-419).                         *)
(***************************************************************************)
\* a JSON value posted as an element of restore_points: a string or a number
JsonStr(s) == [ isstr |-> TRUE, s |-> s ]
JsonNum == [ isstr |-> FALSE, s |-> <<>> ]

\* the iteration with the totals updated before rmtree is called, so that
\* a removal that fails has already been counted
bulk_item_counts_before_removal(f, restore_point_name) ==
    IF ~restore_point_name.isstr
    THEN { [ fs |-> f, size |-> 0, vms |-> 0,
             result |-> [ name |-> restore_point_name, success |-> FALSE,
                          error |-> "AttributeError" ] ] }
    ELSE
    LET restore_point_path == join(RESTORE_POINTS_DIR, restore_point_name.s) IN
    IF ~StartsWith(restore_point_name.s, PREFIX)
    THEN { [ fs |-> f, size |-> 0, vms |-> 0,
             result |-> [ name |-> restore_point_name, success |-> FALSE,
                          error |-> "Invalid restore point name format" ] ] }
    ELSE IF ~exists(f, restore_point_path)
    THEN { [ fs |-> f, size |-> 0, vms |-> 0,
             result |-> [ name |-> restore_point_name, success |-> FALSE,
                          error |-> "Restore point not found" ] ] }
    ELSE { IF o.ok
           THEN [ fs |-> o.fs, size |-> total_size,
                  vms |-> count_vms(f, restore_point_path),
                  result |-> [ name |-> restore_point_name, success |-> TRUE,
                               deleted_vm_count |-> count_vms(f, restore_point_path),
                               deleted_size_bytes |-> total_size ] ]
           ELSE [ fs |-> o.fs, size |-> total_size,
                  vms |-> count_vms(f, restore_point_path),
                  result |-> [ name |-> restore_point_name, success |-> FALSE,
                               error |-> "OSError" ] ]
           : total_size \in deletion_total_size(f, restore_point_path),
             o \in rmtree(f, restore_point_path) }

\* lines 339-401, one iteration: the [fs, result, size, vms] it can end in,
\* size and vms being what it adds to the two running totals
bulk_item(f, restore_point_name) ==
    IF ~restore_point_name.isstr
    THEN \* .startswith on a value that is no string raises; line 396
         { [ fs |-> f, size |-> 0, vms |-> 0,
             result |-> [ name |-> restore_point_name, success |-> FALSE,
                          error |-> "AttributeError" ] ] }
    ELSE
    LET restore_point_path == join(RESTORE_POINTS_DIR, restore_point_name.s) IN
    IF ~StartsWith(restore_point_name.s, PREFIX)
    THEN { [ fs |-> f, size |-> 0, vms |-> 0,
             result |-> [ name |-> restore_point_name, success |-> FALSE,
                          error |-> "Invalid restore point name format" ] ] }
    ELSE IF ~exists(f, restore_point_path)
    THEN { [ fs |-> f, size |-> 0, vms |-> 0,
             result |-> [ name |-> restore_point_name, success |-> FALSE,
                          error |-> "Restore point not found" ] ] }
    ELSE { IF o.ok
           THEN [ fs |-> o.fs, size |-> total_size,
                  vms |-> count_vms(f, restore_point_path),
                  result |-> [ name |-> restore_point_name, success |-> TRUE,
                               deleted_vm_count |-> count_vms(f, restore_point_path),
                               deleted_size_bytes |-> total_size ] ]
           ELSE [ fs |-> o.fs, size |-> 0, vms |-> 0,
                  result |-> [ name |-> restore_point_name, success |-> FALSE,
                               error |-> "OSError" ] ]
           : total_size \in deletion_total_size(f, restore_point_path),
             o \in rmtree(f, restore_point_path) }

\* lines 403-404
CountSuccess(rs) == Cardinality({ j \in 1..Len(rs) : rs[j].success })

\* lines 406-416: the response after the loop
bulk_response(rps, rs, size, vms) ==
    [ status |-> 200, error |-> "",
      body |-> [ success |-> TRUE,
                 results |-> rs,
                 summary |-> [ total_requested |-> Len(rps),
                               successful_deletes |-> CountSuccess(rs),
                               failed_deletes |-> Len(rs) - CountSuccess(rs),
                               total_deleted_size_bytes |-> size,
                               total_deleted_vms |-> vms ] ] ]

(***************************************************************************)
(* The filesystems the handlers are run on.                                *)
(*                                                                         *)
(*   /tool/web-interface/app.py                                            *)
(*   /tool/restore-points/vm-export-1/vm_export_tasks.csv                  *)
(*                                    u.ova  w.ova  s/x.ova                *)
(*   /tool/restore-points/vm-export-2/vm_export_tasks.csv  u.ova           *)
(*   /tool/restore-points/vm-export-f      (a regular file)                *)
(*   /tool/restore-points/misc/k.ova       (a directory without prefix)    *)
(***************************************************************************)
NonEmpty(c) == c # <<>>
KeyOf(p) == SelectSeq(PathComponents(p), NonEmpty)

RP1 == PREFIX \o <<"1">>
RP2 == PREFIX \o <<"2">>
RPF == PREFIX \o <<"f">>
RP9 == PREFIX \o <<"9">>
MISC == <<"m", "i", "s", "c">>
ENC_SLASH == <<"%", "2", "F">>
UP == <<".", ".">>

DirNode ==
    [ kind |-> "dir", size |-> 0, content |-> <<>>,
      readable |-> TRUE, statOK |-> TRUE, removable |-> TRUE ]
FileNode(n) ==
    [ kind |-> "file", size |-> n, content |-> <<>>,
      readable |-> TRUE, statOK |-> TRUE, removable |-> TRUE ]
TextNode(text) ==
    [ kind |-> "file", size |-> Len(text), content |-> text,
      readable |-> TRUE, statOK |-> TRUE, removable |-> TRUE ]

\* manifest lines: three fields, five fields, two fields (malformed), a
\* blank line, and a padded row without line terminator
ROW3 == <<"a", ",", "u", ",", "p", "\n">>
ROW5 == <<"b", ",", "w", ",", "q", ",", "t", ",", "o", "\n">>
ROW2 == <<"c", ",", "z", "\n">>
BLANK == <<"\n">>
ROWP == <<" ", "d", ",", "y", ",", "q">>
LineSet == { ROW3, ROW5, ROW2, BLANK, ROWP }

RECURSIVE SeqsUpTo(_, _)
SeqsUpTo(S, n) ==
    IF n = 0 THEN { <<>> }
    ELSE SeqsUpTo(S, n - 1) \cup
         { Append(q, x) : q \in { r \in SeqsUpTo(S, n - 1) : Len(r) = n - 1 }, x \in S }

\* the texts of a manifest of at most MaxLines lines
Manifests == { Concat(ls) : ls \in SeqsUpTo(LineSet, MaxLines) }

DefaultManifest == ROW3 \o ROW3 \o ROW2 \o ROW5

PathKey(rel) == KeyOf(join(RESTORE_POINTS_DIR, rel))

\* the nodes outside the first restore point
BaseNodes ==
    { <<<<>>, DirNode>>,
      <<KeyOf(SCRIPT_DIR), DirNode>>,
      <<KeyOf(join(SCRIPT_DIR, <<"w", "e", "b", "-", "i", "n", "t", "e", "r", "f", "a", "c", "e">>)), DirNode>>,
      <<KeyOf(join(SCRIPT_DIR, <<"w", "e", "b", "-", "i", "n", "t", "e", "r", "f", "a", "c", "e", "/", "a", "p", "p", ".", "p", "y">>)), FileNode(400)>> }

CatalogNodes ==
    { <<KeyOf(RESTORE_POINTS_DIR), DirNode>>,
      <<PathKey(RP2), DirNode>>,
      <<PathKey(join(RP2, TASKS_FILE_NAME)), TextNode(ROW3 \o ROW3)>>,
      <<PathKey(join(RP2, <<"u", ".", "o", "v", "a">>)), FileNode(30)>>,
      <<PathKey(RPF), FileNode(1)>>,
      <<PathKey(MISC), DirNode>>,
      <<PathKey(join(MISC, <<"k", ".", "o", "v", "a">>)), FileNode(5)>> }

\* the first restore point: its manifest (absent, or a text, readable or
\* not), an artifact that may be a dangling link, an artifact that may be
\* impossible to unlink, and a subdirectory with one more artifact
Rp1Nodes(hasManifest, text, readable, broken, locked) ==
    { <<PathKey(RP1), DirNode>>,
      <<PathKey(join(RP1, <<"u", ".", "o", "v", "a">>)), [ FileNode(100) EXCEPT !.statOK = ~broken ]>>,
      <<PathKey(join(RP1, <<"w", ".", "o", "v", "a">>)), [ FileNode(250) EXCEPT !.removable = ~locked ]>>,
      <<PathKey(join(RP1, <<"s">>)), DirNode>>,
      <<PathKey(join(RP1, <<"s", "/", "x", ".", "o", "v", "a">>)), FileNode(50)>> }
    \cup IF hasManifest
         THEN { <<PathKey(join(RP1, TASKS_FILE_NAME)),
                  [ TextNode(text) EXCEPT !.readable = readable ]>> }
         ELSE {}

MkFs(nodes) ==
    [ k \in { n[1] : n \in nodes } |-> (CHOOSE n \in nodes : n[1] = k)[2] ]

\* filesystems that differ in what can fail
TreeFilesystems ==
    { MkFs(BaseNodes \cup CatalogNodes
           \cup Rp1Nodes(TRUE, DefaultManifest, readable, broken, locked))
      : readable \in BOOLEAN, broken \in BOOLEAN, locked \in BOOLEAN }
    \cup { MkFs(BaseNodes) }

\* filesystems that differ in the manifest of the first restore point
ManifestFilesystems ==
    { MkFs(BaseNodes \cup CatalogNodes \cup Rp1Nodes(TRUE, m, TRUE, FALSE, FALSE))
      : m \in Manifests }
    \cup { MkFs(BaseNodes \cup CatalogNodes \cup Rp1Nodes(FALSE, <<>>, TRUE, FALSE, FALSE)) }

(***************************************************************************)
(* Requests.                                                               *)
(***************************************************************************)
\* the restore_point_name a route can pass to the two single handlers
SingleArgs ==
    { RP1, RP2, RPF, RP9, MISC,
      <<"%", "7", "6">> \o Tail(RP1),
      RP1 \o ENC_SLASH \o <<"s">>,
      RP1 \o ENC_SLASH \o UP,
      RP1 \o ENC_SLASH \o UP \o ENC_SLASH \o MISC,
      RP1 \o ENC_SLASH \o UP \o ENC_SLASH \o RP2,
      RP1 \o ENC_SLASH \o UP \o ENC_SLASH \o UP }

\* the elements a posted restore_points list is made of
BulkItems ==
    { JsonStr(RP1), JsonStr(RP2), JsonStr(RPF), JsonStr(MISC),
      JsonStr(RP1 \o <<"/">> \o UP \o <<"/">> \o MISC),
      JsonNum }

\* the posted JSON documents: no usable object, an object without the key,
\* a container that has the key but cannot be subscripted by it, a
\* restore_points value that is no list, and a list
BulkRequests ==
    { [ shape |-> sh, restore_points |-> <<>> ]
      : sh \in { "no_data", "no_key", "bad_container", "not_list" } }
    \cup { [ shape |-> "list", restore_points |-> l ] : l \in SeqsUpTo(BulkItems, MaxBulk) }

(***************************************************************************)
(* The state machine: one request is served at a time (the handlers are    *)
(* synchronous); the bulk handler is followed through its loop.  resp is   *)
(* the response of the handler that just returned, until it is taken by    *)
(* the client (Reply).                                                     *)
(***************************************************************************)
VARIABLES
    fs,                  \* the filesystem
    resp,                \* the last response sent
    pc,                  \* "idle": waiting for a request; "bulk": inside the
                         \* bulk handler's loop; "replied": a handler returned
    restore_points,      \* bulk handler: data['restore_points']
    idx,                 \* bulk handler: how many elements the loop has taken
    results,             \* bulk handler: results
    total_deleted_size,  \* bulk handler: total_deleted_size
    total_deleted_vms    \* bulk handler: total_deleted_vms

vars == << fs, resp, pc, restore_points, idx, results,
           total_deleted_size, total_deleted_vms >>

loopVars == << restore_points, idx, results,
               total_deleted_size, total_deleted_vms >>

NoResponse ==
    [ op |-> "none", arg |-> <<>>, status |-> 0, error |-> "", body |-> NoBody ]

InitRest ==
    /\ resp = NoResponse
    /\ pc = "idle"
    /\ restore_points = <<>>
    /\ idx = 0
    /\ results = <<>>
    /\ total_deleted_size = 0
    /\ total_deleted_vms = 0

Init == fs \in TreeFilesystems /\ InitRest

InitManifests == fs \in ManifestFilesystems /\ InitRest

\* GET /api/restore-points
ListRestorePoints ==
    /\ pc = "idle"
    /\ \E r \in api_restore_points(fs) :
          resp' = [ op |-> "list", arg |-> <<>>, status |-> r.status,
                    error |-> r.error, body |-> r.body ]
    /\ pc' = "replied"
    /\ UNCHANGED << fs, loopVars >>

\* GET /api/restore-points/<restore_point_name>/contents
GetRestorePointContents ==
    /\ pc = "idle"
    /\ \E arg \in SingleArgs :
          LET r == api_restore_point_contents(fs, arg) IN
          resp' = [ op |-> "contents", arg |-> arg, status |-> r.status,
                    error |-> r.error, body |-> r.body ]
    /\ pc' = "replied"
    /\ UNCHANGED << fs, loopVars >>

\* DELETE /api/restore-points/<restore_point_name>
DeleteRestorePoint ==
    /\ pc = "idle"
    /\ \E arg \in SingleArgs :
          \E o \in api_delete_restore_point(fs, arg) :
             /\ fs' = o.fs
             /\ resp' = [ op |-> "delete", arg |-> arg, status |-> o.status,
                          error |-> o.error, body |-> o.body ]
    /\ pc' = "replied"
    /\ UNCHANGED loopVars

\* POST /api/restore-points/bulk-delete, lines 325-336: the request is
\* refused, or the loop is entered
BulkBegin ==
    /\ pc = "idle"
    /\ \E req \in BulkRequests :
          IF req.shape = "list"
          THEN /\ pc' = "bulk"
               /\ restore_points' = req.restore_points
               /\ idx' = 0
               /\ results' = <<>>
               /\ total_deleted_size' = 0
               /\ total_deleted_vms' = 0
               /\ UNCHANGED << fs, resp >>
          ELSE /\ resp' = [ op |-> "bulk", arg |-> req,
                            status |-> IF req.shape = "bad_container" THEN 500 ELSE 400,
                            error |-> CASE req.shape = "not_list" -> "Invalid restore points format"
                                        [] req.shape = "bad_container" -> "Failed to bulk delete restore points"
                                        [] OTHER -> "No restore points specified",
                            body |-> NoBody ]
               /\ pc' = "replied"
               /\ UNCHANGED << fs, loopVars >>

\* lines 338-401: one iteration of the loop
BulkItem ==
    /\ pc = "bulk"
    /\ idx < Len(restore_points)
    /\ \E o \in bulk_item(fs, restore_points[idx + 1]) :
          /\ fs' = o.fs
          /\ results' = Append(results, o.result)
          /\ total_deleted_size' = total_deleted_size + o.size
          /\ total_deleted_vms' = total_deleted_vms + o.vms
    /\ idx' = idx + 1
    /\ UNCHANGED << resp, pc, restore_points >>

\* lines 403-416: the loop is over, the response is sent
BulkEnd ==
    /\ pc = "bulk"
    /\ idx = Len(restore_points)
    /\ LET r == bulk_response(restore_points, results,
                              total_deleted_size, total_deleted_vms) IN
       resp' = [ op |-> "bulk",
                 arg |-> [ shape |-> "list", restore_points |-> restore_points ],
                 status |-> r.status, error |-> r.error, body |-> r.body ]
    /\ pc' = "replied"
    /\ restore_points' = <<>>
    /\ idx' = 0
    /\ results' = <<>>
    /\ total_deleted_size' = 0
    /\ total_deleted_vms' = 0
    /\ UNCHANGED fs

\* the response is handed to the client; the server waits for a request
Reply ==
    /\ pc = "replied"
    /\ pc' = "idle"
    /\ resp' = NoResponse
    /\ UNCHANGED << fs, loopVars >>

Next ==
    \/ ListRestorePoints
    \/ GetRestorePointContents
    \/ DeleteRestorePoint
    \/ BulkBegin
    \/ BulkItem
    \/ BulkEnd
    \/ Reply

Spec == Init /\ [][Next]_vars

\* the two read-only handlers over every manifest
NextRead ==
    \/ ListRestorePoints
    \/ GetRestorePointContents
    \/ Reply

SpecRead == InitManifests /\ [][NextRead]_vars

(***************************************************************************)
(* Vocabulary of the properties.                                           *)
(***************************************************************************)
CatalogKey == KeyOf(RESTORE_POINTS_DIR)

\* the nodes of f at or below key k
Subtree(f, k) == { c \in DOMAIN f : IsUnder(c, k) }

\* k is, or lies below, a direct child of the catalog root whose own name
\* starts with the prefix
InPrefixedChild(k) ==
    /\ Len(k) > Len(CatalogKey)
    /\ IsUnder(k, CatalogKey)
    /\ StartsWith(k[Len(CatalogKey) + 1], PREFIX)

\* the steps of the handlers
ContentsStep == pc = "idle" /\ pc' = "replied" /\ resp'.op = "contents"
DeleteStep == pc = "idle" /\ pc' = "replied" /\ resp'.op = "delete"
BulkItemStep == pc = "bulk" /\ idx' = idx + 1
BulkEndStep == pc = "bulk" /\ pc' = "replied"

InvalidNameError == "Invalid restore point name format"

\* the names a listing holds
ListedNames(rps) == { rps[j].name : j \in 1..Len(rps) }
ListedEntries(rps) == { rps[j] : j \in 1..Len(rps) }

\* the listings get_restore_points can return on f, when it does not fail
Listings(f) == { g.restore_points : g \in { h \in get_restore_points(f) : ~h.failed } }

\* sums over the successful items of a bulk result list
RECURSIVE SuccessSizes(_)
SuccessSizes(rs) ==
    IF rs = <<>> THEN 0
    ELSE (IF Head(rs).success THEN Head(rs).deleted_size_bytes ELSE 0)
         + SuccessSizes(Tail(rs))

RECURSIVE SuccessVms(_)
SuccessVms(rs) ==
    IF rs = <<>> THEN 0
    ELSE (IF Head(rs).success THEN Head(rs).deleted_vm_count ELSE 0)
         + SuccessVms(Tail(rs))

RECURSIVE SumSizes(_, _)
SumSizes(f, ks) ==
    IF ks = {} THEN 0
    ELSE LET k == CHOOSE x \in ks : TRUE IN f[k].size + SumSizes(f, ks \ {k})

\* the bytes of the artifact files below k whose size can be looked up
ArtifactBytes(f, k) ==
    SumSizes(f, { c \in Subtree(f, k) :
                    /\ f[c].kind = "file"
                    /\ f[c].statOK
                    /\ EndsWith(c[Len(c)], OVA_EXT) })

\* the number of "," in a line
RECURSIVE Commas(_)
Commas(line) ==
    IF line = <<>> THEN 0
    ELSE (IF Head(line) = "," THEN 1 ELSE 0) + Commas(Tail(line))

HasThreeFields(line) == Commas(line) >= 2

\* the lines of a text after its first line
RowsOf(text) == IF ReadLines(text) = <<>> THEN <<>> ELSE Tail(ReadLines(text))

(***************************************************************************)
(* C1.  A name that does not start with 'vm-export-' is answered with the  *)
(* invalid-name error by getRestorePointContents, deleteRestorePoint and   *)
(* the per-item step of bulkDelete, and the filesystem is left as it was.  *)
(***************************************************************************)
C1_InvalidNameRejected ==
    [][ /\ ( (ContentsStep \/ DeleteStep) /\ ~StartsWith(resp'.arg, PREFIX) )
           => ( /\ resp'.status = 400
                /\ resp'.error = InvalidNameError
                /\ fs' = fs )
        /\ ( /\ BulkItemStep
             /\ restore_points[idx + 1].isstr
             /\ ~StartsWith(restore_points[idx + 1].s, PREFIX) )
           => ( /\ ~results'[idx + 1].success
                /\ results'[idx + 1].error = InvalidNameError
                /\ fs' = fs )
      ]_vars

(***************************************************************************)
(* C2.  Whatever name is passed to deleteRestorePoint or bulkDelete, only  *)
(* direct children of the catalog root whose name starts with the prefix   *)
(* (with what they contain) are removed: every removed node lies in such a *)
(* child, and the catalog root and everything outside it stay.             *)
(***************************************************************************)
C2_NoPathTraversal ==
    [][ \A k \in DOMAIN fs \ DOMAIN fs' : InPrefixedChild(k) ]_vars

(***************************************************************************)
(* C3.  deleteRestorePoint is atomic: a DELETE of a restore point either   *)
(* answers success with the whole subtree gone, or answers an error with   *)
(* the filesystem exactly as it was.                                       *)
(***************************************************************************)
C3_DeleteAtomic ==
    [][ ( DeleteStep /\ resp'.arg \in { RP1, RP2 } )
        => \/ /\ resp'.status = 200
              /\ Subtree(fs', PathKey(resp'.arg)) = {}
           \/ /\ resp'.status # 200
              /\ fs' = fs
      ]_vars

(***************************************************************************)
(* C3, as amended.  Every DELETE ends in one of three ways: success, with  *)
(* exactly the subtree of the target gone; a validation error (400, 404),  *)
(* with the filesystem as it was; or the deletion error (500, never        *)
(* success), with the target directory still there and possibly a part of  *)
(* what it contained already removed.                                      *)
(***************************************************************************)
C3_DeleteOutcomes ==
    [][ DeleteStep =>
        LET r == Resolve(fs, join(RESTORE_POINTS_DIR, unquote(resp'.arg))) IN
        \/ /\ resp'.status = 200
           /\ r.ok
           /\ DOMAIN fs' = DOMAIN fs \ Subtree(fs, r.key)
           /\ \A k \in DOMAIN fs' : fs'[k] = fs[k]
        \/ /\ resp'.status \in { 400, 404 }
           /\ fs' = fs
        \/ /\ resp'.status = 500
           /\ resp'.error = "Failed to delete restore point"
           /\ r.ok
           /\ r.key \in DOMAIN fs'
           /\ DOMAIN fs' \subseteq DOMAIN fs
           /\ DOMAIN fs \ DOMAIN fs' \subseteq Subtree(fs, r.key)
           /\ \A k \in DOMAIN fs' : fs'[k] = fs[k]
      ]_vars

\* a DELETE of vm-export-1 answered with the deletion error after an
\* artifact was removed and while another is still there
C3_Witness ==
    /\ resp.op = "delete"
    /\ resp.arg = RP1
    /\ resp.status = 500
    /\ PathKey(join(RP1, <<"u", ".", "o", "v", "a">>)) \notin DOMAIN fs
    /\ PathKey(join(RP1, <<"w", ".", "o", "v", "a">>)) \in DOMAIN fs

(***************************************************************************)
(* C4.  After a successful deleteRestorePoint(name) the directory is gone, *)
(* no listing holds name, and every other restore point that was listed is *)
(* still listed with the same statistics.                                  *)
(***************************************************************************)
C4_DeletedAndOthersKept ==
    [][ ( DeleteStep /\ resp'.status = 200 ) =>
        LET name == resp'.body.restore_point IN
        /\ ~exists(fs', join(RESTORE_POINTS_DIR, name))
        /\ \A l \in Listings(fs') : name \notin ListedNames(l)
        /\ \A l \in Listings(fs) : \A e \in ListedEntries(l) :
              e.name # name => \E m \in Listings(fs') : e \in ListedEntries(m)
      ]_vars

(***************************************************************************)
(* C5.  The statistics a successful deletion (single, or an item of a bulk *)
(* deletion) returns for a listed restore point are the vm_count and       *)
(* size_bytes a listing reports for it just before the deletion.           *)
(***************************************************************************)
C5_DeletionStatsAsListed ==
    [][ /\ ( DeleteStep /\ resp'.status = 200 ) =>
           \A l \in Listings(fs) : \A e \in ListedEntries(l) :
              e.name = resp'.body.restore_point =>
                 \E m \in Listings(fs) : \E d \in ListedEntries(m) :
                    /\ d.name = e.name
                    /\ d.vm_count = resp'.body.deleted_vm_count
                    /\ d.size_bytes = resp'.body.deleted_size_bytes
        /\ ( BulkItemStep /\ results'[idx + 1].success ) =>
           \A l \in Listings(fs) : \A e \in ListedEntries(l) :
              e.name = restore_points[idx + 1].s =>
                 \E m \in Listings(fs) : \E d \in ListedEntries(m) :
                    /\ d.name = e.name
                    /\ d.vm_count = results'[idx + 1].deleted_vm_count
                    /\ d.size_bytes = results'[idx + 1].deleted_size_bytes
      ]_vars

(***************************************************************************)
(* C6.  bulkDelete over n names handles every one of them: each iteration  *)
(* appends one result for the name at its position, a success exactly when *)
(* the name passed validation and its directory was removed, and adds the  *)
(* statistics of a success (and nothing for a failure) to the totals; the  *)
(* response holds n results in input order, requested = n, succeeded +     *)
(* failed = n, and totals equal to the sums over the successful items.     *)
(***************************************************************************)
C6_BulkIsolatedAndSummed ==
    [][ /\ BulkItemStep =>
           LET item == restore_points[idx + 1]
               path == join(RESTORE_POINTS_DIR, item.s)
               r == results'[idx + 1]
           IN  /\ Len(results') = idx + 1
               /\ SubSeq(results', 1, idx) = results
               /\ restore_points' = restore_points
               /\ pc' = "bulk"
               /\ r.name = item
               /\ r.success <=> ( /\ item.isstr
                                  /\ StartsWith(item.s, PREFIX)
                                  /\ exists(fs, path)
                                  /\ Resolve(fs, path).key \notin DOMAIN fs' )
               /\ total_deleted_size' = total_deleted_size + SuccessSizes(<<r>>)
               /\ total_deleted_vms' = total_deleted_vms + SuccessVms(<<r>>)
        /\ BulkEndStep =>
           LET n == Len(restore_points)
               b == resp'.body
           IN  /\ resp'.status = 200
               /\ Len(b.results) = n
               /\ \A j \in 1..n : b.results[j].name = restore_points[j]
               /\ b.summary.total_requested = n
               /\ b.summary.successful_deletes
                     = Cardinality({ j \in 1..n : b.results[j].success })
               /\ b.summary.successful_deletes + b.summary.failed_deletes = n
               /\ b.summary.total_deleted_size_bytes = SuccessSizes(b.results)
               /\ b.summary.total_deleted_vms = SuccessVms(b.results)
      ]_vars

\* a bulk response whose first item failed and whose second item succeeded
C6_Witness ==
    /\ resp.op = "bulk"
    /\ resp.status = 200
    /\ Len(resp.body.results) = 2
    /\ ~resp.body.results[1].success
    /\ resp.body.results[2].success
    /\ resp.body.summary.total_deleted_size_bytes > 0

(***************************************************************************)
(* C7.  bulkDelete with an empty list of names, or with a value that is no *)
(* list, is answered with one validation error and without item results.   *)
(***************************************************************************)
C7_EmptyOrNonListRefused ==
    ( /\ resp.op = "bulk"
      /\ \/ resp.arg.shape = "not_list"
         \/ resp.arg.shape = "list" /\ resp.arg.restore_points = <<>> )
    => ( resp.status = 400 /\ resp.body = NoBody )

(***************************************************************************)
(* C8.  For an existing restore point whose manifest has a first line      *)
(* followed by rows, getRestorePointContents returns one entry for each    *)
(* row with at least three comma-separated fields, in the order of the     *)
(* rows, and vm_count is their number; the first line gives no entry.      *)
(***************************************************************************)
C8_ContentsRows ==
    ( resp.op = "contents" /\ resp.status = 200 ) =>
    LET path == join(RESTORE_POINTS_DIR, unquote(resp.arg))
        tasks == Resolve(fs, join(path, TASKS_FILE_NAME))
        rows == IF tasks.ok THEN RowsOf(fs[tasks.key].content) ELSE <<>>
        good == SelectSeq(rows, HasThreeFields)
        vms == resp.body.vms
    IN  /\ Len(vms) = Len(good)
        /\ resp.body.vm_count = Len(good)
        /\ \A j \in 1..Len(vms) :
              StartsWith(LStrip(good[j]), vms[j].vm_name \o <<",">> \o vms[j].vm_uuid)

\* contents of a manifest of four lines: the first line, a malformed row
\* between two well-formed rows
C8_Witness ==
    /\ resp.op = "contents"
    /\ resp.status = 200
    /\ resp.arg = RP1
    /\ resp.body.vm_count = 2
    /\ LET rows == RowsOf(fs[PathKey(join(RP1, TASKS_FILE_NAME))].content) IN
       /\ Len(rows) = 3
       /\ HasThreeFields(rows[1])
       /\ ~HasThreeFields(rows[2])
       /\ HasThreeFields(rows[3])

(***************************************************************************)
(* C9.  Read failures are never fatal: the contents of an existing restore *)
(* point whose manifest is absent or unreadable are the normal answer with *)
(* no entries, and a listing counts, for every restore point, every        *)
(* artifact file whose size can be looked up, a failing file counting 0.   *)
(***************************************************************************)
C9_ReadFailuresNotFatal ==
    /\ ( /\ resp.op = "contents"
         /\ StartsWith(unquote(resp.arg), PREFIX)
         /\ isdir(fs, join(RESTORE_POINTS_DIR, unquote(resp.arg)))
         /\ ~readlines(fs, join(join(RESTORE_POINTS_DIR, unquote(resp.arg)),
                                TASKS_FILE_NAME)).ok )
       => ( /\ resp.status = 200
            /\ resp.body.vms = <<>>
            /\ resp.body.vm_count = 0 )
    /\ ( resp.op = "list" /\ resp.status = 200 )
       => \A e \in ListedEntries(resp.body.restore_points) :
             e.size_bytes = ArtifactBytes(fs, PathKey(e.name))

(***************************************************************************)
(* C10.  The vm_count a listing reports for a restore point is the number  *)
(* of entries getRestorePointContents returns for it on the same           *)
(* filesystem.                                                             *)
(***************************************************************************)
C10_VmCountIsEntryCount ==
    ( resp.op = "list" /\ resp.status = 200 ) =>
    \A e \in ListedEntries(resp.body.restore_points) :
       LET c == api_restore_point_contents(fs, e.name) IN
       c.status = 200 => c.body.vm_count = e.vm_count

=============================================================================
